---- MODULE Spec2Model ----
(***************************************************************************)
(* Model of package argon2id: GenerateFromPassword, decodeHash and         *)
(* CompareHashAndPassword, together with the library routines they call    *)
(* (fmt.Sprintf and fmt.Sscanf with %d, base64.RawStdEncoding,             *)
(* io.ReadFull, argon2.IDKey, subtle.ConstantTimeCompare).                 *)
(*                                                                         *)
(* A Go string is a sequence of one-character strings; the newline         *)
(* character is written "LF".  A []byte is a sequence of 0..255.  An       *)
(* unsigned integer is a sequence of four 16-bit limbs, most significant   *)
(* first, so that the 64-bit accumulator of strconv.ParseUint and the      *)
(* 32-bit and 8-bit destination widths keep their real sizes.              *)
(***************************************************************************)
EXTENDS Integers, Sequences, FiniteSets, TLC

(***************************************************************************)
(* Bounds of the model.                                                    *)
(***************************************************************************)
\* passwords are PasswordOf(0) .. PasswordOf(MaxPass)
MaxPass == 2
\* the random source is sampled at seeds 0 .. MaxSeed
MaxSeed == 1

(***************************************************************************)
(* Characters.                                                             *)
(***************************************************************************)
Digits == <<"0", "1", "2", "3", "4", "5", "6", "7", "8", "9">>

IsDigit(c) == \E i \in 1..10 : Digits[i] = c

DigitVal(c) == (CHOOSE i \in 1..10 : Digits[i] = c) - 1

\* fmt.isSpace, restricted to the characters of the model
IsSpace(c) == c = " "

(***************************************************************************)
(* Unsigned integers as limbs.                                             *)
(***************************************************************************)
LimbBase == 256 * 256

U(n) == <<0, 0, 0, n>>

Zero == U(0)

\* n*10 + d on the 64-bit accumulator; carry is what does not fit
MulAdd10(n, d) ==
    LET v0 == n[4] * 10 + d
        v1 == n[3] * 10 + (v0 \div LimbBase)
        v2 == n[2] * 10 + (v1 \div LimbBase)
        v3 == n[1] * 10 + (v2 \div LimbBase)
    IN  [val   |-> <<v3 % LimbBase, v2 % LimbBase, v1 % LimbBase, v0 % LimbBase>>,
         carry |-> v3 \div LimbBase]

\* n divided by 10: quotient and remainder
DivMod10(n) ==
    LET c1 == n[1]
        c2 == (c1 % 10) * LimbBase + n[2]
        c3 == (c2 % 10) * LimbBase + n[3]
        c4 == (c3 % 10) * LimbBase + n[4]
    IN  [quo |-> <<c1 \div 10, c2 \div 10, c3 \div 10, c4 \div 10>>,
         rem |-> c4 % 10]

\* whether n survives the conversion to an unsigned integer of the given width
FitsBits(n, bits) ==
    CASE bits = 8  -> n[1] = 0 /\ n[2] = 0 /\ n[3] = 0 /\ n[4] < 256
      [] bits = 32 -> n[1] = 0 /\ n[2] = 0
      [] OTHER     -> TRUE

\* the conversion uintN(n): the low bits of n
TruncBits(n, bits) ==
    CASE bits = 8  -> <<0, 0, 0, n[4] % 256>>
      [] bits = 32 -> <<0, 0, n[3], n[4]>>
      [] OTHER     -> n

(***************************************************************************)
(* fmt.Sprintf("%d", n) for an unsigned n.                                 *)
(***************************************************************************)
RECURSIVE FormatUintAcc(_, _)
FormatUintAcc(n, acc) ==
    LET qr == DivMod10(n)
        out == <<Digits[qr.rem + 1]>> \o acc
    IN  IF qr.quo = Zero THEN out ELSE FormatUintAcc(qr.quo, out)

FormatUint(n) == FormatUintAcc(n, <<>>)

(***************************************************************************)
(* strconv.ParseUint(tok, 10, 64): tok is what scanNumber accepted, digits *)
(* and underscores; an underscore is a syntax error in base 10.            *)
(***************************************************************************)
RECURSIVE ParseUintFrom(_, _, _)
ParseUintFrom(tok, i, n) ==
    IF i > Len(tok) THEN [err |-> "nil", val |-> n]
    ELSE IF ~IsDigit(tok[i]) THEN [err |-> "ErrSyntax", val |-> Zero]
    ELSE LET r == MulAdd10(n, DigitVal(tok[i]))
         IN  IF r.carry # 0 THEN [err |-> "ErrRange", val |-> Zero]
             ELSE ParseUintFrom(tok, i + 1, r.val)

ParseUint(tok) ==
    IF tok = <<>> THEN [err |-> "ErrSyntax", val |-> Zero]
    ELSE ParseUintFrom(tok, 1, Zero)

(***************************************************************************)
(* fmt.Sscanf: the scanner reads the input from position pos on.  Every    *)
(* result carries err ("nil" when the step succeeded) and the position     *)
(* after what was consumed.                                                *)
(***************************************************************************)
ScanErrors ==
    {"ErrUnexpectedEOF", "unexpected newline", "expected integer",
     "input does not match format", "ErrSyntax", "ErrRange", "integer overflow"}

\* (*ss).SkipSpace with nlIsSpace = false
RECURSIVE SkipSpace(_, _)
SkipSpace(s, pos) ==
    IF pos > Len(s) THEN [err |-> "nil", pos |-> pos]
    ELSE IF s[pos] = "LF" THEN [err |-> "unexpected newline", pos |-> pos]
    ELSE IF IsSpace(s[pos]) THEN SkipSpace(s, pos + 1)
    ELSE [err |-> "nil", pos |-> pos]

\* the literal characters of a format: (*ss).advance
RECURSIVE ExpectLit(_, _, _)
ExpectLit(s, pos, lit) ==
    IF lit = <<>> THEN [err |-> "nil", pos |-> pos]
    ELSE IF pos > Len(s) THEN [err |-> "ErrUnexpectedEOF", pos |-> pos]
    ELSE IF s[pos] # Head(lit) THEN [err |-> "input does not match format", pos |-> pos]
    ELSE ExpectLit(s, pos + 1, Tail(lit))

\* s.accept("0123456789_")
IsNumberChar(c) == IsDigit(c) \/ c = "_"

\* (*ss).scanNumber: the position after the run of number characters at pos
RECURSIVE NumberEnd(_, _)
NumberEnd(s, pos) ==
    IF pos <= Len(s) /\ IsNumberChar(s[pos]) THEN NumberEnd(s, pos + 1) ELSE pos

\* a variant without the width check: the value is converted, uintN(i)
UintTokenTruncated(r, end, bits) ==
    IF r.err # "nil" THEN [err |-> r.err, pos |-> end, val |-> Zero]
    ELSE [err |-> "nil", pos |-> end, val |-> TruncBits(r.val, bits)]

\* the token of scanNumber through strconv.ParseUint and the width check
\* of scanUint: x := (i << (64 - n)) >> (64 - n); x != i is an overflow
UintToken(r, end, bits) ==
    IF r.err # "nil" THEN [err |-> r.err, pos |-> end, val |-> Zero]
    ELSE IF ~FitsBits(r.val, bits) THEN [err |-> "integer overflow", pos |-> end, val |-> Zero]
    ELSE [err |-> "nil", pos |-> end, val |-> r.val]

\* scanNumber at pos: s.notEOF(), one number character at least, then the run
ScanUintAt(s, pos, end, bits) ==
    IF pos > Len(s) THEN [err |-> "ErrUnexpectedEOF", pos |-> pos, val |-> Zero]
    ELSE IF ~IsNumberChar(s[pos]) THEN [err |-> "expected integer", pos |-> pos, val |-> Zero]
    ELSE UintToken(ParseUint(SubSeq(s, pos, end - 1)), end, bits)

ScanUintSkipped(s, sk, bits) ==
    IF sk.err # "nil" THEN [err |-> sk.err, pos |-> sk.pos, val |-> Zero]
    ELSE ScanUintAt(s, sk.pos, NumberEnd(s, sk.pos), bits)

\* (*ss).scanUint(verb 'd', bitSize bits), with the SkipSpace before it
ScanUint(s, pos, bits) == ScanUintSkipped(s, SkipSpace(s, pos), bits)

\* 2^63 <= n, on the limbs
AtLeast2Pow63(n) == n[1] >= LimbBase \div 2

\* strconv.ParseInt's range check on the magnitude r of a token with sign neg
IntToken(r, neg, end) ==
    IF r.err # "nil" THEN [err |-> r.err, pos |-> end, neg |-> FALSE, val |-> Zero]
    ELSE IF ~neg /\ AtLeast2Pow63(r.val)
    THEN [err |-> "ErrRange", pos |-> end, neg |-> FALSE, val |-> Zero]
    ELSE IF neg /\ AtLeast2Pow63(r.val) /\ r.val # <<LimbBase \div 2, 0, 0, 0>>
    THEN [err |-> "ErrRange", pos |-> end, neg |-> FALSE, val |-> Zero]
    ELSE [err |-> "nil", pos |-> end, neg |-> neg /\ r.val # Zero, val |-> r.val]

\* scanNumber at start, after the sign if there was one
ScanIntAt(s, start, end, neg) ==
    IF start > Len(s) THEN [err |-> "ErrUnexpectedEOF", pos |-> start, neg |-> FALSE, val |-> Zero]
    ELSE IF ~IsNumberChar(s[start])
    THEN [err |-> "expected integer", pos |-> start, neg |-> FALSE, val |-> Zero]
    ELSE IntToken(ParseUint(SubSeq(s, start, end - 1)), neg, end)

\* s.accept("+-")
ScanIntSigned(s, pos) ==
    IF pos > Len(s) THEN [err |-> "ErrUnexpectedEOF", pos |-> pos, neg |-> FALSE, val |-> Zero]
    ELSE IF s[pos] \in {"+", "-"}
    THEN ScanIntAt(s, pos + 1, NumberEnd(s, pos + 1), s[pos] = "-")
    ELSE ScanIntAt(s, pos, NumberEnd(s, pos), FALSE)

ScanIntSkipped(s, sk) ==
    IF sk.err # "nil" THEN [err |-> sk.err, pos |-> sk.pos, neg |-> FALSE, val |-> Zero]
    ELSE ScanIntSigned(s, sk.pos)

\* (*ss).scanInt(verb 'd', 64), with the SkipSpace before it
ScanInt(s, pos) == ScanIntSkipped(s, SkipSpace(s, pos))

\* doScanf walks the format: st is the scanner after the steps so far, with
\* the operands stored; the first error ends the scan
ScanStart == [err |-> "nil", pos |-> 1, vals |-> <<>>]

AfterLit(st, r) == [st EXCEPT !.err = r.err, !.pos = r.pos]

StepLit(s, st, lit) ==
    IF st.err # "nil" THEN st ELSE AfterLit(st, ExpectLit(s, st.pos, lit))

AfterVerb(st, r) ==
    [err |-> r.err, pos |-> r.pos,
     vals |-> IF r.err = "nil" THEN Append(st.vals, r) ELSE st.vals]

StepUint(s, st, bits) ==
    IF st.err # "nil" THEN st ELSE AfterVerb(st, ScanUint(s, st.pos, bits))

StepInt(s, st) ==
    IF st.err # "nil" THEN st ELSE AfterVerb(st, ScanInt(s, st.pos))

VersionOf(st) ==
    IF st.err # "nil" THEN [err |-> st.err, neg |-> FALSE, ver |-> Zero]
    ELSE [err |-> "nil", neg |-> st.vals[1].neg, ver |-> st.vals[1].val]

\* fmt.Sscanf(s, "v=%d", &ver)
SscanfVersion(s) == VersionOf(StepInt(s, StepLit(s, ScanStart, <<"v", "=">>)))

ParamsOf(st) ==
    IF st.err # "nil"
    THEN [err |-> st.err, Memory |-> Zero, Iterations |-> Zero, Parallelism |-> Zero]
    ELSE [err |-> "nil", Memory |-> st.vals[1].val, Iterations |-> st.vals[2].val,
          Parallelism |-> st.vals[3].val]

\* fmt.Sscanf(s, "m=%d,t=%d,p=%d", &p.Memory, &p.Iterations, &p.Parallelism)
SscanfParams(s) ==
    ParamsOf(
      StepUint(s,
        StepLit(s,
          StepUint(s,
            StepLit(s,
              StepUint(s,
                StepLit(s, ScanStart, <<"m", "=">>), 32),
              <<",", "t", "=">>), 32),
          <<",", "p", "=">>), 8))

(***************************************************************************)
(* encoding/base64, RawStdEncoding: the standard alphabet, no padding, not *)
(* strict.                                                                 *)
(***************************************************************************)
encodeStd ==
    <<"A", "B", "C", "D", "E", "F", "G", "H", "I", "J", "K", "L", "M", "N", "O", "P",
      "Q", "R", "S", "T", "U", "V", "W", "X", "Y", "Z", "a", "b", "c", "d", "e", "f",
      "g", "h", "i", "j", "k", "l", "m", "n", "o", "p", "q", "r", "s", "t", "u", "v",
      "w", "x", "y", "z", "0", "1", "2", "3", "4", "5", "6", "7", "8", "9", "+", "/">>

\* the decoder's table: the value of each character of the alphabet
decodeMap ==
    [c \in {encodeStd[i] : i \in 1..64} |-> (CHOOSE i \in 1..64 : encodeStd[i] = c) - 1]

IsB64(c) == c \in DOMAIN decodeMap

B64Val(c) == decodeMap[c]

B64Char(v) == encodeStd[v + 1]

\* the 24 bits of the three bytes from src[i] on, a missing byte counting 0
Group3(src, i) ==
    src[i] * 65536
    + (IF i + 1 <= Len(src) THEN src[i + 1] * 256 ELSE 0)
    + (IF i + 2 <= Len(src) THEN src[i + 2] ELSE 0)

\* the k-th 6-bit digit (k in 0..3) of 24 bits
Sextet(val, k) ==
    CASE k = 0 -> val \div 262144
      [] k = 1 -> (val \div 4096) % 64
      [] k = 2 -> (val \div 64) % 64
      [] OTHER -> val % 64

\* (*Encoding).EncodeToString: three bytes make four characters; a
\* remainder of one or two bytes makes two or three
EncodeToString(src) ==
    [j \in 1..((4 * Len(src) + 2) \div 3) |->
        B64Char(Sextet(Group3(src, 3 * ((j - 1) \div 4) + 1), (j - 1) % 4))]

\* the decoder skips '\n' (and '\r') wherever they stand
NotNewline(c) == c # "LF"

DropNewlines(s) == SelectSeq(s, NotNewline)

\* the 24 bits of the four characters from s[i] on, a missing one counting 0
Group4(s, i) ==
    B64Val(s[i]) * 262144
    + (IF i + 1 <= Len(s) THEN B64Val(s[i + 1]) * 4096 ELSE 0)
    + (IF i + 2 <= Len(s) THEN B64Val(s[i + 2]) * 64 ELSE 0)
    + (IF i + 3 <= Len(s) THEN B64Val(s[i + 3]) ELSE 0)

\* the k-th byte (k in 0..2) of 24 bits
Octet(val, k) ==
    CASE k = 0 -> val \div 65536
      [] k = 1 -> (val \div 256) % 256
      [] OTHER -> val % 256

\* the bytes of a run of alphabet characters whose length is not 1 mod 4:
\* four characters make three bytes, a final two or three make one or two,
\* and the bits left over in a final short quantum are dropped unchecked
DecodeQuanta(s) ==
    [j \in 1..((3 * Len(s)) \div 4) |->
        Octet(Group4(s, 4 * ((j - 1) \div 3) + 1), (j - 1) % 3)]

\* a variant: the strict mode of the decoder, where the bits left over in
\* a final short quantum must be 0
DecodeCleanStrict(clean) ==
    IF \E i \in 1..Len(clean) : ~IsB64(clean[i])
    THEN [err |-> "CorruptInputError", bytes |-> <<>>]
    ELSE IF Len(clean) % 4 = 1
    THEN [err |-> "CorruptInputError", bytes |-> <<>>]
    ELSE IF Len(clean) % 4 = 2 /\ B64Val(clean[Len(clean)]) % 16 # 0
    THEN [err |-> "CorruptInputError", bytes |-> <<>>]
    ELSE IF Len(clean) % 4 = 3 /\ B64Val(clean[Len(clean)]) % 4 # 0
    THEN [err |-> "CorruptInputError", bytes |-> <<>>]
    ELSE [err |-> "nil", bytes |-> DecodeQuanta(clean)]

\* a character outside the alphabet, or a single character left over, is a
\* CorruptInputError
DecodeClean(clean) ==
    IF \E i \in 1..Len(clean) : ~IsB64(clean[i])
    THEN [err |-> "CorruptInputError", bytes |-> <<>>]
    ELSE IF Len(clean) % 4 = 1
    THEN [err |-> "CorruptInputError", bytes |-> <<>>]
    ELSE [err |-> "nil", bytes |-> DecodeQuanta(clean)]

\* (*Encoding).DecodeString
DecodeString(s) == DecodeClean(DropNewlines(s))

(***************************************************************************)
(* golang.org/x/crypto/argon2.IDKey.  It panics when time < 1 or           *)
(* threads < 1, and fails on a key length of 0 (blake2b refuses a digest   *)
(* of size 0).  Otherwise it returns keyLen bytes that are a function of   *)
(* all six arguments; the function below separates the passwords of the    *)
(* model.                                                                  *)
(***************************************************************************)
RECURSIVE SumBytes(_)
SumBytes(b) == IF b = <<>> THEN 0 ELSE Head(b) + SumBytes(Tail(b))

RECURSIVE PassCode(_)
PassCode(b) == IF b = <<>> THEN 0 ELSE (Len(b) * b[Len(b)] + 1 + PassCode(SubSeq(b, 1, Len(b) - 1))) % 256

LimbSum(n) == (n[1] + n[2] + n[3] + n[4]) % 256

IDKey(password, salt, time, memory, threads, keyLen) ==
    LET mix == PassCode(password) + 7 * (SumBytes(salt) % 256) + Len(salt)
               + 3 * LimbSum(time) + 5 * LimbSum(memory) + 11 * LimbSum(threads)
               + 13 * (keyLen % 256)
    IN  IF time = Zero \/ threads = Zero \/ keyLen = 0
        THEN [panic |-> TRUE, key |-> <<>>]
        ELSE [panic |-> FALSE, key |-> [i \in 1..keyLen |-> (mix + 31 * i) % 256]]

\* subtle.ConstantTimeCompare(x, y) == 1
ConstantTimeEqual(x, y) ==
    /\ Len(x) = Len(y)
    /\ \A i \in 1..Len(x) : x[i] = y[i]

(***************************************************************************)
(* Package argon2id.                                                       *)
(***************************************************************************)
\* argon2.Version
Version == 19

\* the algorithm name decodeHash expects and GenerateFromPassword writes
AlgorithmName == <<"a", "r", "g", "o", "n", "2", "i", "d">>

\* the configuration GenerateFromPassword uses for a nil *Params
DefaultParams ==
    [Memory |-> U(4096), Iterations |-> U(10), Parallelism |-> U(2),
     SaltLength |-> 32, KeyLength |-> 64]

\* strings.Split(s, "$")
RECURSIVE Split(_)
Split(s) ==
    IF \A i \in 1..Len(s) : s[i] # "$" THEN <<s>>
    ELSE LET i == CHOOSE j \in 1..Len(s) :
                      s[j] = "$" /\ \A k \in 1..(j - 1) : s[k] # "$"
         IN  <<SubSeq(s, 1, i - 1)>> \o Split(SubSeq(s, i + 1, Len(s)))

\* a variant: len(elems) < 6
SegmentCountNotLess(elems) == Len(elems) >= 6

\* len(elems) != 6 is ErrInvalidHash
SegmentCountOK(elems) == Len(elems) = 6

\* a variant: && in the place of ||
CompatibleEither(name, v) == name = AlgorithmName \/ (~v.neg /\ v.ver = U(Version))

\* elems[1] != "argon2id" || ver != argon2.Version is ErrIncompatibleVersion
Compatible(name, v) == name = AlgorithmName /\ ~v.neg /\ v.ver = U(Version)

\* a variant: len(salt)
KeyLengthFromSalt(salt, hashedPassword) == Len(salt)

\* p.KeyLength = uint32(len(hashedPassword))
KeyLengthOf(salt, hashedPassword) == Len(hashedPassword)

NoParams ==
    [Memory |-> Zero, Iterations |-> Zero, Parallelism |-> Zero,
     SaltLength |-> 0, KeyLength |-> 0]

DecodeFailed(e) == [err |-> e, p |-> NoParams, salt |-> <<>>, hashedPassword |-> <<>>]

\* hashedPassword, err = base64.RawStdEncoding.DecodeString(elems[5]) and after
decodeKey(sp, salt, hashedPassword) ==
    IF hashedPassword.err # "nil" THEN DecodeFailed(hashedPassword.err)
    ELSE [err |-> "nil",
          p |-> [Memory |-> sp.Memory, Iterations |-> sp.Iterations,
                 Parallelism |-> sp.Parallelism,
                 SaltLength |-> Len(salt.bytes),
                 KeyLength |-> KeyLengthOf(salt.bytes, hashedPassword.bytes)],
          salt |-> salt.bytes, hashedPassword |-> hashedPassword.bytes]

\* salt, err = base64.RawStdEncoding.DecodeString(elems[4]) and after
decodeSalt(elems, sp, salt) ==
    IF salt.err # "nil" THEN DecodeFailed(salt.err)
    ELSE decodeKey(sp, salt, DecodeString(elems[6]))

\* the Sscanf of the parameters and after
decodeParams(elems, sp) ==
    IF sp.err # "nil" THEN DecodeFailed(sp.err)
    ELSE decodeSalt(elems, sp, DecodeString(elems[5]))

\* the Sscanf of the version and after
decodeVersion(elems, v) ==
    IF v.err # "nil" THEN DecodeFailed(v.err)
    ELSE IF ~Compatible(elems[2], v) THEN DecodeFailed("ErrIncompatibleVersion")
    ELSE decodeParams(elems, SscanfParams(elems[4]))

decodeElems(elems) ==
    IF ~SegmentCountOK(elems) THEN DecodeFailed("ErrInvalidHash")
    ELSE decodeVersion(elems, SscanfVersion(elems[3]))

decodeHash(hash) == decodeElems(Split(hash))

\* a variant: the lengths alone are compared
KeysMatchByLength(userHash, hashedPass) == Len(userHash) = Len(hashedPass)

\* subtle.ConstantTimeCompare(userHash, hashedPass) == 0 is ErrPasswordNotMatch
KeysMatch(userHash, hashedPass) == ConstantTimeEqual(userHash, hashedPass)

\* What one call of CompareHashAndPassword does: the result of decodeHash,
\* whether argon2.IDKey was called, whether the comparison was reached, and
\* the outcome: "returned" with err, or "panic".
CompareReturn(d, e) ==
    [dec |-> d, kdfCalled |-> FALSE, compared |-> FALSE, userHash |-> <<>>,
     outcome |-> "returned", err |-> e]

\* from the call of argon2.IDKey on; k is what the call did
CompareDerived(d, k) ==
    IF k.panic
    THEN [dec |-> d, kdfCalled |-> TRUE, compared |-> FALSE, userHash |-> <<>>,
          outcome |-> "panic", err |-> "nil"]
    ELSE [dec |-> d, kdfCalled |-> TRUE, compared |-> TRUE, userHash |-> k.key,
          outcome |-> "returned",
          err |-> IF KeysMatch(k.key, d.hashedPassword)
                  THEN "nil" ELSE "ErrPasswordNotMatch"]

\* a variant: every decode error is reported as ErrPasswordNotMatch
CompareMasksDecodeError(d, pass) ==
    IF d.err # "nil" THEN CompareReturn(d, "ErrPasswordNotMatch")
    ELSE CompareDerived(d, IDKey(pass, d.salt, d.p.Iterations, d.p.Memory,
                                 d.p.Parallelism, d.p.KeyLength))

\* from the return of decodeHash on; d is what decodeHash returned
CompareDecoded(d, pass) ==
    IF d.err # "nil" THEN CompareReturn(d, d.err)
    ELSE CompareDerived(d, IDKey(pass, d.salt, d.p.Iterations, d.p.Memory,
                                 d.p.Parallelism, d.p.KeyLength))

CompareResult(hash, pass) == CompareDecoded(decodeHash(hash), pass)

\* io.ReadFull(rand.Reader, buf) with len(buf) = n: the bytes read at a seed
RandRead(seed, n) == [i \in 1..n |-> (130 + 97 * seed + 59 * i) % 256]

\* a variant: p.Iterations and p.Memory in each other's place
FormatRecordSwapped(p, encodedSalt, encodedHash) ==
    <<"$">> \o AlgorithmName \o <<"$", "v", "=">> \o FormatUint(U(Version))
    \o <<"$", "m", "=">> \o FormatUint(p.Iterations)
    \o <<",", "t", "=">> \o FormatUint(p.Memory)
    \o <<",", "p", "=">> \o FormatUint(p.Parallelism)
    \o <<"$">> \o encodedSalt \o <<"$">> \o encodedHash

\* fmt.Sprintf("$argon2id$v=%d$m=%d,t=%d,p=%d$%s$%s", ...)
FormatRecord(p, encodedSalt, encodedHash) ==
    <<"$">> \o AlgorithmName \o <<"$", "v", "=">> \o FormatUint(U(Version))
    \o <<"$", "m", "=">> \o FormatUint(p.Memory)
    \o <<",", "t", "=">> \o FormatUint(p.Iterations)
    \o <<",", "p", "=">> \o FormatUint(p.Parallelism)
    \o <<"$">> \o encodedSalt \o <<"$">> \o encodedHash

\* What one call of GenerateFromPassword does: its arguments, the salt and
\* key it made, the record, and the outcome: "returned" with err, or "panic".
GenerateReturn(pass, p, salt, key, encodedHash, record, outcome, err) ==
    [pass |-> pass, p |-> p, salt |-> salt, key |-> key,
     encodedHash |-> encodedHash, record |-> record,
     outcome |-> outcome, err |-> err]

\* the string representation
GenerateEncoded(pass, p, unencodedSalt, hash, encodedHash) ==
    GenerateReturn(pass, p, unencodedSalt, hash, encodedHash,
                   FormatRecord(p, EncodeToString(unencodedSalt), encodedHash),
                   "returned", "nil")

\* from the call of argon2.IDKey on; k is what the call did
GenerateDerived(pass, p, unencodedSalt, k) ==
    IF k.panic
    THEN GenerateReturn(pass, p, unencodedSalt, <<>>, <<>>, <<>>, "panic", "nil")
    ELSE GenerateEncoded(pass, p, unencodedSalt, k.key, EncodeToString(k.key))

\* from io.ReadFull on: it fails only when it has bytes to read
GenerateSalted(pass, p, unencodedSalt, randOK) ==
    IF p.SaltLength > 0 /\ ~randOK
    THEN GenerateReturn(pass, p, <<>>, <<>>, <<>>, <<>>, "returned", "ErrRand")
    ELSE GenerateDerived(pass, p, unencodedSalt,
                         IDKey(pass, unencodedSalt, p.Iterations, p.Memory,
                               p.Parallelism, p.KeyLength))

GenerateWith(pass, p, seed, randOK) ==
    GenerateSalted(pass, p, RandRead(seed, p.SaltLength), randOK)

\* params is the *Params: <<>> for nil, <<p>> for a pointer to p; randOK is
\* whether the random source delivers
GenerateResult(pass, params, seed, randOK) ==
    GenerateWith(pass, IF params = <<>> THEN DefaultParams ELSE params[1], seed, randOK)

(***************************************************************************)
(* The inputs of the model.                                                *)
(***************************************************************************)
\* "foo", "foo1", "foo12", ...
PasswordOf(k) == <<102, 111, 111>> \o [i \in 1..k |-> 48 + i]

Passwords == {PasswordOf(k) : k \in 0..MaxPass}

Seeds == 0..MaxSeed

Params(m, t, p, saltLength, keyLength) ==
    [Memory |-> m, Iterations |-> t, Parallelism |-> p,
     SaltLength |-> saltLength, KeyLength |-> keyLength]

\* the *Params a caller passes: nil, parameters with every field positive
\* or a salt length of 0, and parameters argon2.IDKey refuses (the
\* Parallelism: 0 of TestGenerateFromPassword among them)
ParamChoices ==
    {<<>>,
     <<Params(U(8), U(1), U(1), 1, 1)>>,
     <<Params(U(4096), U(3), U(1), 2, 2)>>,
     <<Params(U(64), U(2), U(4), 0, 3)>>,
     <<Params(<<0, 0, LimbBase - 1, LimbBase - 1>>, U(1), U(255), 3, 4)>>,
     <<Params(U(4096), U(1000), U(0), 32, 64)>>,
     <<Params(U(4096), U(0), U(1), 2, 2)>>,
     <<Params(U(4096), U(3), U(1), 2, 0)>>}

\* strings.Join(segs, "$")
RECURSIVE Join(_)
Join(segs) ==
    IF Len(segs) = 1 THEN segs[1]
    ELSE segs[1] \o <<"$">> \o Join(Tail(segs))

\* the characters a stored record's key segment is overwritten with
TamperChars == {"A", "B", "Q", "R", "g", "h", "w", "/", "!", "$", "=", "LF"}

Tags == {<<"a", "r", "g", "o", "n", "2", "i", "d">>,
         <<"a", "r", "g", "o", "n", "2", "i">>,
         <<>>}

VersionClauses ==
    {<<"v", "=", "1", "9">>,
     <<"v", "=", "1", "8">>,
     <<"v", "=", "+", "1", "9">>,
     <<"v", "=", " ", "1", "9">>,
     <<"v", "=", "1", "9", "x">>,
     <<"v", "=", "x">>,
     <<>>,
     <<"v", "=", "-", "1", "9">>,
     <<"v", "=">>,
     <<"1", "9">>,
     <<"v", "=", "0", "1", "9">>,
     <<"v", "=", "1", "_", "9">>,
     <<"v", "=", "1", "8", "4", "4", "6", "7", "4", "4", "0", "7", "3", "7", "0", "9", "5", "5", "1", "6", "3", "5">>,
     <<"v", "=", "9", "2", "2", "3", "3", "7", "2", "0", "3", "6", "8", "5", "4", "7", "7", "5", "8", "0", "8">>}

ShortClauses == {<<"m", "=", "4", "0", "9", "6", ",", "t", "=", "3", ",", "p", "=", "1">>,
                 <<"m", "=", "8", ",", "t", "=", "0", ",", "p", "=", "1">>,
                 <<"m", "=", "x">>}

SaltSegments == {<<>>,
                 <<"A", "A", "A", "A">>,
                 <<"A", "!">>}

KeySegments == {<<>>,
                <<"A", "A", "A", "A">>,
                <<"Z", "g">>,
                <<"A">>}

MDigits ==
    {<<"0">>,
     <<"1">>,
     <<"4", "0", "9", "6">>,
     <<"0", "0", "7">>,
     <<"4", "2", "9", "4", "9", "6", "7", "2", "9", "5">>,
     <<"4", "2", "9", "4", "9", "6", "7", "2", "9", "6">>,
     <<"4", "2", "9", "4", "9", "6", "7", "2", "9", "7">>,
     <<"1", "8", "4", "4", "6", "7", "4", "4", "0", "7", "3", "7", "0", "9", "5", "5", "1", "6", "1", "7">>}

TDigits ==
    {<<"0">>,
     <<"1">>,
     <<"3">>,
     <<"4", "2", "9", "4", "9", "6", "7", "2", "9", "5">>,
     <<"4", "2", "9", "4", "9", "6", "7", "2", "9", "6">>,
     <<"4", "2", "9", "4", "9", "6", "7", "2", "9", "7">>}

PDigits == {<<"0">>,
            <<"1">>,
            <<"2", "5", "5">>,
            <<"2", "5", "6">>,
            <<"2", "5", "7">>}

OtherClauses ==
    {<<"m", "=", "1", ",", "t", "=", "1">>,
     <<"m", "=", "1", ",", "t", "=", "1", ",", "p", "=">>,
     <<"m", "=", "-", "1", ",", "t", "=", "1", ",", "p", "=", "1">>,
     <<"m", "=", "1", ";", "t", "=", "1", ";", "p", "=", "1">>,
     <<"t", "=", "1", ",", "m", "=", "1", ",", "p", "=", "1">>,
     <<"m", "=", " ", "1", ",", "t", "=", " ", "1", ",", "p", "=", " ", "1">>,
     <<"m", "=", "1", ",", "t", "=", "1", ",", "p", "=", "1", "x">>,
     <<"m", "=", "1", "_", "0", ",", "t", "=", "1", ",", "p", "=", "1">>,
     <<"M", "=", "1", ",", "t", "=", "1", ",", "p", "=", "1">>,
     <<"m", "=", "1", ",", " ", "t", "=", "1", ",", "p", "=", "1">>,
     <<"m", "=", ",", "t", "=", "1", ",", "p", "=", "1">>,
     <<"m", "=", "1", ",", "t", "=", "1", ",", "p", "=", "LF", "1">>,
     <<>>}

GoodSegments == <<<<>>, <<"a", "r", "g", "o", "n", "2", "i", "d">>, <<"v", "=", "1", "9">>, <<"m", "=", "4", "0", "9", "6", ",", "t", "=", "3", ",", "p", "=", "1">>, <<"A", "A", "A", "A">>, <<"Z", "m", "9", "v">>>>

\* records whose segments are those of a good record with one segment
\* dropped or written twice, and a few short strings
SegmentForgeries ==
    {Join(SubSeq(GoodSegments, 1, i - 1) \o SubSeq(GoodSegments, i + 1, 6)) : i \in 1..6}
    \cup {Join(SubSeq(GoodSegments, 1, i) \o SubSeq(GoodSegments, i, 6)) : i \in 1..6}
    \cup {Join(<<<<"x">>>> \o Tail(GoodSegments))}
    \cup {<<>>,
          <<"$">>,
          <<"$", "$", "$", "$", "$">>,
          <<"$", "$", "$", "$", "$", "$">>,
          <<"$", "a", "r", "g", "o", "n", "2", "i", "d">>}

ParamClause(m, t, p) ==
    <<"m", "=">> \o m \o <<",", "t", "=">> \o t \o <<",", "p", "=">> \o p

(***************************************************************************)
(* The state: a record is generated, or written by somebody else, into     *)
(* storage; it may be overwritten in one place; it is then compared with   *)
(* a candidate password.                                                   *)
(***************************************************************************)
VARIABLES
    pc,       \* "start", "stored", "genFailed", "genPanic", "compared", "cmpPanic"
    stored,   \* the record as it stands in storage
    origin,   \* "none", "generated", "tampered", "forged"
    gen,      \* what GenerateFromPassword did (GenerateResult)
    tamper,   \* <<>>, or <<position, character>> of the overwrite
    written,  \* <<>>, or the <<m, t, p>> digits of a forged parameter clause
    cand,     \* the password CompareHashAndPassword is given
    cmp       \* what CompareHashAndPassword did (CompareResult)

vars == <<pc, stored, origin, gen, tamper, written, cand, cmp>>

NoGen == GenerateReturn(<<>>, DefaultParams, <<>>, <<>>, <<>>, <<>>, "none", "nil")

NoCmp == [CompareReturn(DecodeFailed("nil"), "nil") EXCEPT !.outcome = "none"]

Init ==
    /\ pc = "start"
    /\ stored = <<>>
    /\ origin = "none"
    /\ gen = NoGen
    /\ tamper = <<>>
    /\ written = <<>>
    /\ cand = <<>>
    /\ cmp = NoCmp

GenerateFromPassword ==
    /\ pc = "start"
    /\ \E pass \in Passwords, params \in ParamChoices, seed \in Seeds,
          randOK \in BOOLEAN :
          gen' = GenerateResult(pass, params, seed, randOK)
    /\ stored' = gen'.record
    /\ pc' = IF gen'.outcome = "panic" THEN "genPanic"
             ELSE IF gen'.err # "nil" THEN "genFailed"
             ELSE "stored"
    /\ origin' = "generated"
    /\ UNCHANGED <<tamper, written, cand, cmp>>

\* one character of the key segment of a generated record is replaced by
\* a different one (the "Passwords do not match" case of the tests)
Tamper ==
    /\ pc = "stored"
    /\ origin = "generated"
    /\ \E pos \in (Len(stored) - Len(gen.encodedHash) + 1)..Len(stored),
          ch \in TamperChars :
          /\ ch # stored[pos]
          /\ stored' = [stored EXCEPT ![pos] = ch]
          /\ tamper' = <<pos, ch>>
    /\ origin' = "tampered"
    /\ UNCHANGED <<pc, gen, written, cand, cmp>>

\* a record somebody else wrote: six segments, any name and version clause
ForgeHeader ==
    /\ pc = "start"
    /\ \E name \in Tags, ver \in VersionClauses, clause \in ShortClauses,
          salt \in SaltSegments, key \in KeySegments :
          stored' = Join(<<<<>>, name, ver, clause, salt, key>>)
    /\ pc' = "stored"
    /\ origin' = "forged"
    /\ UNCHANGED <<gen, tamper, written, cand, cmp>>

\* a record somebody else wrote: the right name and version, any numbers in
\* the parameter clause
ForgeParams ==
    /\ pc = "start"
    /\ \E m \in MDigits, t \in TDigits, p \in PDigits, key \in {<<"A", "A", "A", "A">>, <<"Z", "g">>} :
          /\ stored' = Join(<<<<>>, AlgorithmName, <<"v", "=">> \o FormatUint(U(Version)),
                              ParamClause(m, t, p), <<"A", "A", "A", "A">>, key>>)
          /\ written' = <<m, t, p>>
    /\ pc' = "stored"
    /\ origin' = "forged"
    /\ UNCHANGED <<gen, tamper, cand, cmp>>

\* a record somebody else wrote: the right name and version, a parameter
\* clause of another shape
ForgeClause ==
    /\ pc = "start"
    /\ \E clause \in OtherClauses, key \in {<<"A", "A", "A", "A">>, <<"Z", "g">>} :
          stored' = Join(<<<<>>, AlgorithmName, <<"v", "=">> \o FormatUint(U(Version)),
                           clause, <<"A", "A", "A", "A">>, key>>)
    /\ pc' = "stored"
    /\ origin' = "forged"
    /\ UNCHANGED <<gen, tamper, written, cand, cmp>>

\* a string somebody else wrote: another number of segments
ForgeSegments ==
    /\ pc = "start"
    /\ \E rec \in SegmentForgeries : stored' = rec
    /\ pc' = "stored"
    /\ origin' = "forged"
    /\ UNCHANGED <<gen, tamper, written, cand, cmp>>

CompareHashAndPassword ==
    /\ pc = "stored"
    /\ \E pass \in Passwords :
          /\ cand' = pass
          /\ cmp' = CompareResult(stored, pass)
    /\ pc' = IF cmp'.outcome = "panic" THEN "cmpPanic" ELSE "compared"
    /\ UNCHANGED <<stored, origin, gen, tamper, written>>

Next ==
    \/ GenerateFromPassword
    \/ Tamper
    \/ ForgeHeader
    \/ ForgeParams
    \/ ForgeClause
    \/ ForgeSegments
    \/ CompareHashAndPassword

Spec == Init /\ [][Next]_vars

(***************************************************************************)
(* Properties.                                                             *)
(***************************************************************************)
\* CompareHashAndPassword was called, and returned or panicked
Called == pc \in {"compared", "cmpPanic"}

\* the number of '$' in a string: one less than its number of segments
DollarCount(s) == Cardinality({i \in 1..Len(s) : s[i] = "$"})

SixSegments == DollarCount(stored) = 5

\* the places of the key segment in a generated record
KeyStart == Len(gen.record) - Len(gen.encodedHash) + 1

\* C1: a record GenerateFromPassword returned, compared with the password it
\* was generated from, gives nil: for the default and for every other
\* parameter choice, and for every salt the random source delivered.
C1_RoundTrip ==
    (Called /\ origin = "generated" /\ cand = gen.pass)
        => (pc = "compared" /\ cmp.err = "nil")

C1_Witness ==
    /\ pc = "compared"
    /\ origin = "generated"
    /\ cand = gen.pass
    /\ gen.p = DefaultParams
    /\ Len(gen.salt) = 32

\* C2: a record GenerateFromPassword returned, compared with any other
\* password, gives exactly ErrPasswordNotMatch.
C2_Negative ==
    (Called /\ origin = "generated" /\ cand # gen.pass)
        => (pc = "compared" /\ cmp.err = "ErrPasswordNotMatch")

C2_Witness ==
    /\ pc = "compared"
    /\ origin = "generated"
    /\ cand # gen.pass
    /\ gen.p # DefaultParams
    /\ cmp.compared

\* C3: decodeHash, and so CompareHashAndPassword, returns ErrInvalidHash
\* exactly when the string does not split into 6 segments on '$', whatever
\* the segments hold.
C3_InvalidFormatIffSegments ==
    Called =>
        /\ (cmp.dec.err = "ErrInvalidHash") <=> ~SixSegments
        /\ ~SixSegments => (pc = "compared" /\ cmp.err = "ErrInvalidHash")
        /\ (pc = "compared" /\ cmp.err = "ErrInvalidHash") => ~SixSegments

C3_Witness ==
    /\ pc = "compared"
    /\ DollarCount(stored) = 4
    /\ Split(stored)[2] = AlgorithmName
    /\ cmp.err = "ErrInvalidHash"

\* what the version clause of the stored record scans as
StoredVersion == SscanfVersion(Split(stored)[3])

VersionIs19(v) == ~v.neg /\ v.ver = U(Version)

\* C4 as claimed: in a record of 6 segments, a name other than "argon2id",
\* or a version other than 19, gives ErrIncompatibleVersion whatever the
\* other segments hold.
C4_AsClaimed ==
    (/\ Called
     /\ SixSegments
     /\ \/ Split(stored)[2] # AlgorithmName
        \/ (StoredVersion.err = "nil" /\ ~VersionIs19(StoredVersion)))
        => cmp.dec.err = "ErrIncompatibleVersion"

\* C4 amended: in a record of 6 segments whose version clause scans as
\* v=<integer>, a name other than "argon2id", or a version other than 19,
\* gives ErrIncompatibleVersion, whatever the other segments hold.
C4_IncompatibleWhenVersionScans ==
    (/\ Called
     /\ SixSegments
     /\ StoredVersion.err = "nil"
     /\ \/ Split(stored)[2] # AlgorithmName
        \/ ~VersionIs19(StoredVersion))
        => (/\ pc = "compared"
            /\ cmp.dec.err = "ErrIncompatibleVersion"
            /\ cmp.err = "ErrIncompatibleVersion")

C4_Witness ==
    /\ pc = "compared"
    /\ SixSegments
    /\ Split(stored)[2] = <<"a", "r", "g", "o", "n", "2", "i">>
    /\ StoredVersion.err = "nil"
    /\ VersionIs19(StoredVersion)
    /\ cmp.err = "ErrIncompatibleVersion"

\* C5: CompareHashAndPassword returns to its caller, with nil or an error,
\* for every record and every password: it never panics.
C5_NeverPanics == pc # "cmpPanic"

\* the key segment of the stored record, after the overwrite
TamperedKeySegment == SubSeq(stored, KeyStart, Len(stored))

TamperedKeyDecodesSame ==
    /\ DecodeString(TamperedKeySegment).err = "nil"
    /\ DecodeString(TamperedKeySegment).bytes = gen.key

\* C6 as claimed: a generated record with one character of its key segment
\* replaced by any other character, compared with the password it was
\* generated from, gives ErrPasswordNotMatch, unless the key segment still
\* decodes to the same bytes.
C6_AsClaimed ==
    (Called /\ origin = "tampered" /\ cand = gen.pass)
        => \/ (pc = "compared" /\ cmp.err = "ErrPasswordNotMatch")
           \/ TamperedKeyDecodesSame

\* C6 amended: the same, for a replacement by another character of the
\* base64 alphabet.
C6_TamperWithinAlphabet ==
    (Called /\ origin = "tampered" /\ cand = gen.pass /\ IsB64(tamper[2]))
        => /\ pc = "compared"
           /\ \/ cmp.err = "ErrPasswordNotMatch"
              \/ TamperedKeyDecodesSame

C6_Witness ==
    /\ pc = "compared"
    /\ origin = "tampered"
    /\ cand = gen.pass
    /\ IsB64(tamper[2])
    /\ tamper[1] = Len(stored)
    /\ cmp.err = "ErrPasswordNotMatch"

\* C7: a decode error is returned as it is and argon2.IDKey is not called;
\* ErrPasswordNotMatch is returned only after a successful decode and a
\* derived key that differs from the stored one; nil only when they are equal.
C7_ErrorSeparation ==
    Called =>
        /\ cmp.dec.err # "nil"
              => (pc = "compared" /\ cmp.err = cmp.dec.err /\ ~cmp.kdfCalled)
        /\ (pc = "compared" /\ cmp.err = "ErrPasswordNotMatch")
              => (/\ cmp.dec.err = "nil"
                  /\ cmp.kdfCalled
                  /\ cmp.userHash # cmp.dec.hashedPassword)
        /\ (pc = "compared" /\ cmp.err = "nil")
              => (/\ cmp.dec.err = "nil"
                  /\ cmp.kdfCalled
                  /\ cmp.userHash = cmp.dec.hashedPassword)

C7_Witness ==
    /\ pc = "compared"
    /\ SixSegments
    /\ cmp.dec.err = "CorruptInputError"
    /\ cmp.err = "CorruptInputError"
    /\ ~cmp.kdfCalled

\* C8: the parameters decodeHash returns without error are all positive.
C8_DecodedParamsPositive ==
    (Called /\ cmp.dec.err = "nil")
        => /\ cmp.dec.p.Memory # Zero
           /\ cmp.dec.p.Iterations # Zero
           /\ cmp.dec.p.Parallelism # Zero
           /\ cmp.dec.p.SaltLength >= 1
           /\ cmp.dec.p.KeyLength >= 1

\* a decimal numeral without its leading zeros
RECURSIVE Canonical(_)
Canonical(d) == IF Len(d) > 1 /\ Head(d) = "0" THEN Canonical(Tail(d)) ELSE d

\* a < b for numerals of the same length
NumeralLess(a, b) ==
    \E i \in 1..Len(a) :
        /\ DigitVal(a[i]) < DigitVal(b[i])
        /\ \A j \in 1..(i - 1) : a[j] = b[j]

\* the number a numeral d writes is greater than the one max writes
Exceeds(d, max) ==
    \/ Len(Canonical(d)) > Len(max)
    \/ Len(Canonical(d)) = Len(max) /\ NumeralLess(max, Canonical(d))

MaxUint32Numeral == <<"4", "2", "9", "4", "9", "6", "7", "2", "9", "5">>

MaxUint8Numeral == <<"2", "5", "5">>

\* C9: in a record with the right name and version, an m or t written above
\* 2^32-1, or a p written above 255, is a scan error; the parameters of an
\* accepted record are the numbers written.
C9_BoundedWidthParsing ==
    (Called /\ written # <<>>) =>
        /\ (\/ Exceeds(written[1], MaxUint32Numeral)
            \/ Exceeds(written[2], MaxUint32Numeral)
            \/ Exceeds(written[3], MaxUint8Numeral))
              => (pc = "compared" /\ cmp.dec.err \in ScanErrors
                  /\ cmp.err = cmp.dec.err)
        /\ cmp.dec.err = "nil"
              => (/\ FormatUint(cmp.dec.p.Memory) = Canonical(written[1])
                  /\ FormatUint(cmp.dec.p.Iterations) = Canonical(written[2])
                  /\ FormatUint(cmp.dec.p.Parallelism) = Canonical(written[3]))

C9_Witness ==
    /\ pc = "compared"
    /\ written # <<>>
    /\ written[1] = <<"4", "2", "9", "4", "9", "6", "7", "2", "9", "7">>
    /\ ~Exceeds(written[2], MaxUint32Numeral)
    /\ ~Exceeds(written[3], MaxUint8Numeral)
    /\ cmp.err = "integer overflow"

\* C10: whenever the comparison is reached, the derived key and the stored
\* key have the same length, so ErrPasswordNotMatch comes from a byte that
\* differs.
C10_SameLengthAtComparison ==
    (Called /\ cmp.compared) =>
        /\ Len(cmp.userHash) = Len(cmp.dec.hashedPassword)
        /\ Len(cmp.userHash) = cmp.dec.p.KeyLength
        /\ cmp.err = "ErrPasswordNotMatch"
              => \E i \in 1..Len(cmp.userHash) :
                    cmp.userHash[i] # cmp.dec.hashedPassword[i]

C10_Witness ==
    /\ pc = "compared"
    /\ cmp.compared
    /\ cmp.err = "ErrPasswordNotMatch"
    /\ Len(cmp.dec.salt) # Len(cmp.dec.hashedPassword)

====
